---- MODULE Spec2Model ----
(***************************************************************************)
(* ShellConv point-cloud layer (src/model.py): knn search, feature gather, *)
(* shell max-pooling, the Lift sub-network and the ShellConv module, as a  *)
(* state machine of calls made by a driver.                                *)
(*                                                                         *)
(* Tensors that the code indexes are nested sequences (axis 0 outermost);  *)
(* index values stored in index tensors are 0-based as in the source, so   *)
(* t[i] of the source is t[i + 1] here.  Tensors that the code only passes *)
(* through the network are represented by their shape.                     *)
(***************************************************************************)
EXTENDS Integers, Sequences, FiniteSets, TLC

VARIABLES
    pc,        \* which call the driver made last
    points,    \* argument: reference points (B x L x N x 3)
    queries,   \* argument: query points     (B x L x M x 3)
    feat,      \* argument: previous features (B x L x N x F) or None
    K,         \* argument: neighbor count of a direct knn call
    indices,   \* argument: neighbor index map (B x L x M x K) of a direct gather call
    feat_cat,  \* the combined feature (B x L x M x K x C) handed to the pooling step
    result,    \* what the last call returned or raised
    ops,       \* the layers the last forward call applied, in order
    calls,     \* number of forward calls made so far
    model      \* the ShellConv object (configuration and persistent state)

vars == <<pc, points, queries, feat, K, indices, feat_cat, result, ops, calls, model>>

(***************************************************************************)
(* Bounds of the model.                                                    *)
(***************************************************************************)
MaxPts == 4        \* B * L * N of an enumerated point tensor
MaxCells == 6      \* B * L * N * M, the distances computed by an enumerated search
MaxM == 2          \* queries per group
MaxFeat == 4       \* B * L * N * F of an enumerated feature tensor
MaxIdx == 3        \* B * L * M * K of an enumerated index tensor
MaxK == 4          \* neighbor count of a ShellConv whose pooling is enumerated
MaxCat == 4        \* B * L * M * K * C of an enumerated combined feature
MaxB == 2          \* B * L of the point set of a forward call
MaxN == 2          \* points per group of a forward call
MaxCalls == 2      \* forward calls of a training run

\* coordinates of enumerated reference points: squared distances 1, 8, 9
PointVals == {<<0, 0, 0>>, <<1, 0, 0>>, <<0, 2, 2>>}
\* coordinates of enumerated query points
QueryVals == {<<0, 0, 0>>, <<1, 0, 0>>}

(***************************************************************************)
(* Python values: None, optional tensors, raised exceptions.               *)
(***************************************************************************)
None == [isNone |-> TRUE, t |-> <<>>]
Some(t) == [isNone |-> FALSE, t |-> t]

Raise(exc, where) == [tag |-> "error", exc |-> exc, where |-> where]
Return1(value) == [tag |-> "ok", value |-> value]
Return2(value, idxs) == [tag |-> "ok", value |-> value, indices |-> idxs]
NoResult == [tag |-> "none"]
NoModel == [constructed |-> FALSE]

(***************************************************************************)
(* Tensor primitives used by knn_one_batch / knn / gather_feature.         *)
(***************************************************************************)
\* torch.cat along axis 0 of two tensors
cat(a, b) == a \o b

\* t.unsqueeze(0)
unsqueeze0(t) == <<t>>

\* Fault: the new slice is put in front of the accumulated ones.
AccumulateInFront(acc, x) == IF acc.isNone THEN Some(x) ELSE Some(cat(x, acc.t))

\* the accumulation idiom  acc = x if acc is None else torch.cat((acc, x))
Accumulate(acc, x) == IF acc.isNone THEN Some(x) ELSE Some(cat(acc.t, x))

\* t.transpose(0, 1) of a matrix with `cols` columns
transpose(t, cols) == [c \in 1..cols |-> [r \in 1..Len(t) |-> t[r][c]]]

\* Squared Euclidean distance of two 3-vectors.  torch.cdist returns its square
\* root; the square root is strictly increasing, so order and ties of the
\* distances are those of the squares.
Dist2(p, q) ==
    (p[1] - q[1]) * (p[1] - q[1]) + (p[2] - q[2]) * (p[2] - q[2])
        + (p[3] - q[3]) * (p[3] - q[3])

\* torch.cdist(point, query): N x M matrix, row n column m
cdist(point, query) ==
    [n \in 1..Len(point) |-> [m \in 1..Len(query) |-> Dist2(point[n], query[m])]]

\* Fault: largest=True, the k largest entries, farthest first.
RECURSIVE SelectLargest(_, _, _)
SelectLargest(col, chosen, k) ==
    IF k = 0 THEN {<<>>}
    ELSE LET rest == (1..Len(col)) \ chosen
             best == {i \in rest : \A j \in rest : col[i] >= col[j]}
         IN UNION {{<<i - 1>> \o s : s \in SelectLargest(col, chosen \cup {i}, k - 1)}
                       : i \in best}

\* Selection of the k smallest entries of a column, nearest first.  Among equal
\* distances torch.topk does not specify which index comes first: every order
\* is a possible outcome.  Result: set of sequences of 0-based indices.
RECURSIVE SelectSmallest(_, _, _)
SelectSmallest(col, chosen, k) ==
    IF k = 0 THEN {<<>>}
    ELSE LET rest == (1..Len(col)) \ chosen
             best == {i \in rest : \A j \in rest : col[i] <= col[j]}
         IN UNION {{<<i - 1>> \o s : s \in SelectSmallest(col, chosen \cup {i}, k - 1)}
                       : i \in best}

\* Fault: K > N is not refused, the N available entries are returned.
topk_truncating(dist, k, M) ==
    LET kk == IF k > Len(dist) THEN Len(dist) ELSE k
        column(m) == [n \in 1..Len(dist) |-> dist[n][m]]
        perQuery == [m \in 1..M |-> SelectSmallest(column(m), {}, kk)]
        choices == {f \in [1..M -> UNION {perQuery[m] : m \in 1..M}] :
                        \A m \in 1..M : f[m] \in perQuery[m]}
    IN [raised |-> FALSE,
        indices |-> {[r \in 1..kk |-> [m \in 1..M |-> f[m][r]]] : f \in choices}]

\* dist.topk(K, dim=0, largest=False, sorted=True).indices for an N x M matrix.
\* K > N is refused ("selected index k out of range"); otherwise the possible
\* K x M index matrices are returned.
topk(dist, k, M) ==
    LET column(m) == [n \in 1..Len(dist) |-> dist[n][m]]
        perQuery == [m \in 1..M |-> SelectSmallest(column(m), {}, k)]
        choices == {f \in [1..M -> UNION {perQuery[m] : m \in 1..M}] :
                        \A m \in 1..M : f[m] \in perQuery[m]}
    IN IF k > Len(dist) THEN [raised |-> TRUE, indices |-> {}]
       ELSE [raised |-> FALSE,
             indices |-> {[r \in 1..k |-> [m \in 1..M |-> f[m][r]]] : f \in choices}]

\* point[idxs]: advanced indexing of an N x 3 tensor by an M x K index tensor
IndexBy(point, idxs) ==
    [m \in 1..Len(idxs) |-> [j \in 1..Len(idxs[m]) |-> point[idxs[m][j] + 1]]]

(***************************************************************************)
(* knn_one_batch (src/model.py 6-31): the set of possible outcomes.        *)
(***************************************************************************)
RECURSIVE knn_one_batch_loop(_, _, _, _, _, _)
knn_one_batch_loop(pts, qrs, k, i, value, idxAcc) ==
    IF i > Len(pts) THEN {Return2(value, idxAcc)}
    ELSE IF i > Len(qrs) THEN {Raise("IndexError", "knn_one_batch")}
    ELSE LET point == pts[i]
             query == qrs[i]
             dist == cdist(point, query)
             top == topk(dist, k, Len(query))
         IN IF top.raised THEN {Raise("RuntimeError", "topk")}
            ELSE UNION {
                LET idxs == transpose(tk, Len(query))
                    nn == unsqueeze0(IndexBy(point, idxs))
                IN knn_one_batch_loop(pts, qrs, k, i + 1,
                        Accumulate(value, nn), Accumulate(idxAcc, unsqueeze0(idxs)))
                : tk \in top.indices}

knn_one_batch(pts, qrs, k) == knn_one_batch_loop(pts, qrs, k, 1, None, None)

(***************************************************************************)
(* knn (src/model.py 33-55): the set of possible outcomes.                 *)
(***************************************************************************)
RECURSIVE knn_loop(_, _, _, _, _, _)
knn_loop(pts, qrs, k, i, value, idxAcc) ==
    IF i > Len(pts) THEN {Return2(value, idxAcc)}
    ELSE IF i > Len(qrs) THEN {Raise("IndexError", "knn")}
    ELSE UNION {
        IF r.tag = "error" THEN {r}
        ELSE IF r.value.isNone THEN {Raise("AttributeError", "knn")}
        ELSE knn_loop(pts, qrs, k, i + 1,
                 Accumulate(value, unsqueeze0(r.value.t)),
                 Accumulate(idxAcc, unsqueeze0(r.indices.t)))
        : r \in knn_one_batch(pts[i], qrs[i], k)}

knn(pts, qrs, k) == knn_loop(pts, qrs, k, 1, None, None)

\* shape of a non-empty nested-sequence tensor with `rank` axes of sequences
RECURSIVE Shape(_, _)
Shape(t, rank) == IF rank <= 1 THEN <<Len(t)>> ELSE <<Len(t)>> \o Shape(t[1], rank - 1)

(***************************************************************************)
(* Enumerated inputs.                                                      *)
(***************************************************************************)
\* B x L x n tensors over vals
Tensor3(B, L, n, vals) == [1..B -> [1..L -> [1..n -> vals]]]

\* shapes (B, L, N) of the enumerated point tensors; a tensor without batch
\* elements or without groups has no point axis to vary
PointShapes ==
    {s \in (0..MaxPts) \X (0..MaxPts) \X (1..MaxPts) :
        /\ s[1] * s[2] * s[3] <= MaxPts
        /\ (s[1] = 0 => s[2] = 0)
        /\ (s[2] = 0 => s[3] = 1)}

\* query counts M searched against a point tensor of shape s
QueryCounts(s) ==
    {m \in 1..MaxM : s[1] * s[2] * s[3] * m <= MaxCells /\ (s[2] = 0 => m = 1)}

\* number of reference points per group of a non-empty point tensor
NumPoints(pts) == Len(pts[1][1])
NonEmpty(pts) == Len(pts) >= 1 /\ Len(pts[1]) >= 1

(***************************************************************************)
(* Direct calls of the search routines.                                    *)
(***************************************************************************)
InitKnn ==
    /\ pc = "ready"
    /\ \E s \in PointShapes : \E m \in QueryCounts(s) :
        /\ points \in Tensor3(s[1], s[2], s[3], PointVals)
        /\ queries \in Tensor3(s[1], s[2], m, QueryVals)
    /\ feat = None
    /\ indices = <<>>
    /\ feat_cat = <<>>
    /\ K \in 1..(MaxPts + 1)
    /\ (NonEmpty(points) => K <= NumPoints(points) + 1)
    /\ (~NonEmpty(points) => K = 1)
    /\ result = NoResult
    /\ ops = <<>>
    /\ calls = 0
    /\ model = NoModel

\* knn_one_batch(points[0], queries[0], K): the groups of a single batch element
CallKnnOneBatch ==
    /\ pc = "ready"
    /\ Len(points) = 1
    /\ result' \in knn_one_batch(points[1], queries[1], K)
    /\ pc' = "knn_one_batch"
    /\ UNCHANGED <<points, queries, feat, K, indices, feat_cat, ops, calls, model>>

\* knn(points, queries, K)
CallKnn ==
    /\ pc = "ready"
    /\ result' \in knn(points, queries, K)
    /\ pc' = "knn"
    /\ UNCHANGED <<points, queries, feat, K, indices, feat_cat, ops, calls, model>>

NextKnn == CallKnnOneBatch \/ CallKnn

SpecKnn == InitKnn /\ [][NextKnn]_vars

(***************************************************************************)
(* Properties of the search routines.                                      *)
(***************************************************************************)
\* the index sequence idx and the coordinates val returned for query q over the
\* reference points point are a K-nearest selection, nearest first
IsNearestFirst(point, q, k, idx, val) ==
    LET d(i) == Dist2(point[i + 1], q)
    IN /\ Len(idx) = k
       /\ Len(val) = k
       /\ \A j \in 1..k : idx[j] \in 0..(Len(point) - 1)
       /\ \A i, j \in 1..k : i # j => idx[i] # idx[j]
       /\ \A j \in 1..(k - 1) : d(idx[j]) <= d(idx[j + 1])
       /\ \A i \in 0..(Len(point) - 1) :
              (\A j \in 1..k : idx[j] # i) => \A j \in 1..k : d(idx[j]) <= d(i)
       /\ \A j \in 1..k : val[j] = point[idx[j] + 1]

\* C1: for a group of N reference points and any K with 1 <= K <= N,
\* knn_one_batch returns, for every query of the group, K pairwise distinct
\* indices in [0, N) in order of non-decreasing distance to the query, such that
\* no reference point left out is strictly closer than a returned one, and the
\* coordinate returned at position k is the reference point at the index
\* returned at position k.
C1_KnnOneBatchNearestFirst ==
    (pc = "knn_one_batch" /\ Len(points[1]) >= 1 /\ K <= NumPoints(points)) =>
        /\ result.tag = "ok"
        /\ ~result.value.isNone /\ ~result.indices.isNone
        /\ Len(result.indices.t) = Len(points[1])
        /\ Len(result.value.t) = Len(points[1])
        /\ \A l \in 1..Len(points[1]) :
            /\ Len(result.indices.t[l]) = Len(queries[1][l])
            /\ Len(result.value.t[l]) = Len(queries[1][l])
            /\ \A m \in 1..Len(queries[1][l]) :
                   IsNearestFirst(points[1][l], queries[1][l][m], K,
                                  result.indices.t[l][m], result.value.t[l][m])

\* reached: one group of three points, K = 2, the nearest point is the last one
\* of the group and the farthest is left out
C1_Witness ==
    /\ pc = "knn_one_batch"
    /\ Len(points[1]) = 1
    /\ NumPoints(points) = 3
    /\ K = 2
    /\ result.tag = "ok"
    /\ result.indices.t[1][1] = <<2, 0>>
    /\ result.value.t[1][1] = <<<<0, 0, 0>>, <<1, 0, 0>>>>

\* C7: when K exceeds the number N of reference points of a group, knn raises:
\* it returns no result, neither one with fewer than K neighbors nor one
\* covering only the batches and groups searched before the failure.
C7_KnnRaisesOnTooFewPoints ==
    (pc = "knn" /\ NonEmpty(points) /\ K > NumPoints(points)) =>
        /\ result.tag = "error"
        /\ result.exc = "RuntimeError"
        /\ result.where = "topk"

\* reached: two batch elements, K = N + 1, and the call raised
C7_Witness ==
    /\ pc = "knn"
    /\ Len(points) = 2
    /\ NonEmpty(points)
    /\ K = NumPoints(points) + 1
    /\ result.tag = "error"

\* the possible results of the search on one group alone
SingleGroup(point, query, k) ==
    {[value |-> r.value.t[1], indices |-> r.indices.t[1]] :
        r \in {r \in knn_one_batch(<<point>>, <<query>>, k) : r.tag = "ok"}}

\* C8: for points (B,L,N,3) and queries (B,L,M,3) with B >= 1, L >= 1 and
\* K <= N, knn returns coordinates of shape (B,L,M,K,3) and indices of shape
\* (B,L,M,K) whose slice at [b,l] is a result of the single-group search on
\* points[b,l] and queries[b,l] alone, in input batch and group order.
C8_KnnIsPerGroupSearch ==
    (pc = "knn" /\ NonEmpty(points) /\ K <= NumPoints(points)) =>
        /\ result.tag = "ok"
        /\ ~result.value.isNone /\ ~result.indices.isNone
        /\ Shape(result.value.t, 5)
               = <<Len(points), Len(points[1]), Len(queries[1][1]), K, 3>>
        /\ Shape(result.indices.t, 4)
               = <<Len(points), Len(points[1]), Len(queries[1][1]), K>>
        /\ Len(result.value.t) = Len(points) /\ Len(result.indices.t) = Len(points)
        /\ \A b \in 1..Len(points) :
            /\ Len(result.value.t[b]) = Len(points[b])
            /\ Len(result.indices.t[b]) = Len(points[b])
            /\ \A l \in 1..Len(points[b]) :
                   [value |-> result.value.t[b][l], indices |-> result.indices.t[b][l]]
                       \in SingleGroup(points[b][l], queries[b][l], K)

\* reached: two batch elements whose searches gave different index maps
C8_Witness ==
    /\ pc = "knn"
    /\ result.tag = "ok"
    /\ Len(points) = 2
    /\ K <= NumPoints(points)
    /\ result.indices.t[1] # result.indices.t[2]

(***************************************************************************)
(* gather_feature (src/model.py 57-76).                                    *)
(***************************************************************************)
\* t[i] for a 0-based Python index i over a sequence t: in range or not
InRange(t, i) == i >= -Len(t) /\ i < Len(t)
PyAt(t, i) == IF i < 0 THEN t[i + Len(t) + 1] ELSE t[i + 1]

\* point_feature_1d[indices[B][L]]: N x F indexed by an M x K index tensor
IndexFeature(pf1d, idxs) ==
    IF \E m \in 1..Len(idxs) : \E j \in 1..Len(idxs[m]) : ~InRange(pf1d, idxs[m][j])
    THEN Raise("IndexError", "gather_feature")
    ELSE Return1(Some([m \in 1..Len(idxs) |->
                          [j \in 1..Len(idxs[m]) |-> PyAt(pf1d, idxs[m][j])]]))

\* Fault: every batch element is gathered with the indices of batch element 0.
RECURSIVE gather_group_loop_batch0(_, _, _, _, _)
gather_group_loop_batch0(pf2d, idx, b, l, one_batch) ==
    IF l > Len(pf2d) THEN Return1(one_batch)
    ELSE IF b > Len(idx) \/ l > Len(idx[b]) THEN Raise("IndexError", "gather_feature")
    ELSE LET pf == IndexFeature(pf2d[l], idx[1][l])
         IN IF pf.tag = "error" THEN pf
            ELSE gather_group_loop_batch0(pf2d, idx, b, l + 1,
                     Accumulate(one_batch, unsqueeze0(pf.value.t)))

\* the inner loop: for L, point_feature_1d in enumerate(point_feature_2d),
\* each turn evaluating indices[B][L]
RECURSIVE gather_group_loop(_, _, _, _, _)
gather_group_loop(pf2d, idx, b, l, one_batch) ==
    IF l > Len(pf2d) THEN Return1(one_batch)
    ELSE IF b > Len(idx) \/ l > Len(idx[b]) THEN Raise("IndexError", "gather_feature")
    ELSE LET pf == IndexFeature(pf2d[l], idx[b][l])
         IN IF pf.tag = "error" THEN pf
            ELSE gather_group_loop(pf2d, idx, b, l + 1,
                     Accumulate(one_batch, unsqueeze0(pf.value.t)))

\* the outer loop: for B, point_feature_2d in enumerate(feat)
RECURSIVE gather_batch_loop(_, _, _, _)
gather_batch_loop(ft, idx, b, res) ==
    IF b > Len(ft) THEN Return1(res)
    ELSE LET ob == gather_group_loop(ft[b], idx, b, 1, None)
         IN IF ob.tag = "error" THEN ob
            ELSE IF ob.value.isNone THEN Raise("AttributeError", "gather_feature")
            ELSE gather_batch_loop(ft, idx, b + 1,
                     Accumulate(res, unsqueeze0(ob.value.t)))

gather_feature(ft, idx) == gather_batch_loop(ft, idx, 1, None)

\* B x L x n x f tensors over vals
Tensor4(B, L, n, f, vals) == [1..B -> [1..L -> [1..n -> [1..f -> vals]]]]

FeatVals == {0, 1}

\* shapes (B, L, N, F) of the enumerated feature tensors
FeatShapes ==
    {s \in (0..MaxFeat) \X (0..MaxFeat) \X (1..MaxFeat) \X (1..MaxFeat) :
        /\ s[1] * s[2] * s[3] * s[4] <= MaxFeat
        /\ (s[1] = 0 => s[2] = 0)
        /\ (s[2] = 0 => s[3] = 1 /\ s[4] = 1)}

\* shapes (M, K) of the index map gathered from a feature tensor of shape s
IndexShapes(s) ==
    {mk \in (1..MaxIdx) \X (1..MaxIdx) :
        /\ s[1] * s[2] * mk[1] * mk[2] <= MaxIdx
        /\ (s[2] = 0 => mk = <<1, 1>>)}

InitGather ==
    /\ pc = "ready"
    /\ \E s \in FeatShapes : \E mk \in IndexShapes(s) :
        /\ \E ft \in Tensor4(s[1], s[2], s[3], s[4], FeatVals) : feat = Some(ft)
        /\ indices \in Tensor4(s[1], s[2], mk[1], mk[2], 0..s[3])
    /\ points = <<>>
    /\ queries = <<>>
    /\ feat_cat = <<>>
    /\ K = 0
    /\ result = NoResult
    /\ ops = <<>>
    /\ calls = 0
    /\ model = NoModel

\* gather_feature(feat, indices)
CallGatherFeature ==
    /\ pc = "ready"
    /\ ~feat.isNone
    /\ result' = gather_feature(feat.t, indices)
    /\ pc' = "gather_feature"
    /\ UNCHANGED <<points, queries, feat, K, indices, feat_cat, ops, calls, model>>

NextGather == CallGatherFeature

SpecGather == InitGather /\ [][NextGather]_vars

(***************************************************************************)
(* Properties of gather_feature.                                           *)
(***************************************************************************)
\* feat (B,L,N,F) and indices (B,L,M,K) have the same B and L
GatherAxesAgree ==
    /\ Len(indices) = Len(feat.t)
    /\ \A b \in 1..Len(feat.t) : Len(indices[b]) = Len(feat.t[b])

\* every index is in [0, N)
GatherIndicesInRange ==
    \A b \in 1..Len(feat.t) : \A l \in 1..Len(feat.t[b]) :
        \A m \in 1..Len(indices[b][l]) : \A j \in 1..Len(indices[b][l][m]) :
            indices[b][l][m][j] \in 0..(Len(feat.t[b][l]) - 1)

\* the result is a tensor (B,L,M,K,F) with out[b,l,m,k,:] = feat[b,l,idx[b,l,m,k],:]
GatherIsLookup ==
    /\ result.tag = "ok"
    /\ ~result.value.isNone
    /\ Len(result.value.t) = Len(feat.t)
    /\ \A b \in 1..Len(feat.t) :
        /\ Len(result.value.t[b]) = Len(feat.t[b])
        /\ \A l \in 1..Len(feat.t[b]) :
            /\ Len(result.value.t[b][l]) = Len(indices[b][l])
            /\ \A m \in 1..Len(indices[b][l]) :
                /\ Len(result.value.t[b][l][m]) = Len(indices[b][l][m])
                /\ \A j \in 1..Len(indices[b][l][m]) :
                       result.value.t[b][l][m][j] = feat.t[b][l][indices[b][l][m][j] + 1]

\* C2 as stated: for feat (B,L,N,F) and idx (B,L,M,K) with every index in
\* [0, N), gather_feature returns a tensor (B,L,M,K,F) with
\* out[b,l,m,k,:] = feat[b,l,idx[b,l,m,k],:], whatever B and L are.
C2_GatherForEveryShape ==
    (pc = "gather_feature" /\ GatherAxesAgree /\ GatherIndicesInRange) => GatherIsLookup

\* C2, amended: the same for B >= 1 and L >= 1.
C2_GatherIsLookup ==
    (pc = "gather_feature" /\ GatherAxesAgree /\ GatherIndicesInRange
        /\ Len(feat.t) >= 1 /\ \A b \in 1..Len(feat.t) : Len(feat.t[b]) >= 1)
    => GatherIsLookup

\* reached: two batch elements with different features and different indices,
\* gathered to different slices
C2_Witness ==
    /\ pc = "gather_feature"
    /\ result.tag = "ok"
    /\ Len(feat.t) = 2
    /\ GatherIndicesInRange
    /\ feat.t[1] # feat.t[2]
    /\ indices[1] # indices[2]
    /\ result.value.t[1][1][1][1] = feat.t[1][1][2]
    /\ result.value.t[2][1][1][1] = feat.t[2][1][1]
    /\ result.value.t[1] # result.value.t[2]

(***************************************************************************)
(* Shapes and the shape-level behaviour of the torch layers.               *)
(***************************************************************************)
\* t.permute(perm), perm 0-based
permute(shape, perm) == [i \in 1..Len(perm) |-> shape[perm[i] + 1]]

\* t.transpose(1, 4) of a 5-axis tensor
transpose14(shape) == permute(shape, <<0, 4, 2, 3, 1>>)

\* t.unsqueeze(3) of a 4-axis tensor
unsqueeze3(shape) == SubSeq(shape, 1, 3) \o <<1>> \o SubSeq(shape, 4, Len(shape))

\* Fault: squeeze() without an axis, every axis of size 1 is removed.
RECURSIVE squeeze_all(_)
squeeze_all(shape) ==
    IF shape = <<>> THEN <<>>
    ELSE IF Head(shape) = 1 THEN squeeze_all(Tail(shape))
    ELSE <<Head(shape)>> \o squeeze_all(Tail(shape))

\* t.squeeze(3): axis 3 is removed when its size is 1, else the tensor is unchanged
squeeze3(shape) ==
    IF shape[4] = 1 THEN SubSeq(shape, 1, 3) \o SubSeq(shape, 5, Len(shape)) ELSE shape

\* broadcasting of two shapes of equal rank: defined when every axis agrees or is 1
Broadcastable(a, b) == \A i \in 1..Len(a) : a[i] = b[i] \/ a[i] = 1 \/ b[i] = 1
Broadcast(a, b) == [i \in 1..Len(a) |-> IF a[i] = 1 THEN b[i] ELSE a[i]]

\* number of windows of nn.MaxPool3d along an axis of length n with kernel = stride
\* = S (no padding, floor mode)
PoolOutLen(n, S) == (n - S) \div S + 1

(***************************************************************************)
(* The layers and their persistent state.                                  *)
(*   version            how many optimizer updates the parameters received  *)
(*   num_batches_tracked, running_stats                                     *)
(*                      the buffers of a normalization layer: the batch     *)
(*                      counter, and how many batches its running mean and  *)
(*                      variance have absorbed                              *)
(***************************************************************************)
BatchNorm3d(num_features) ==
    [num_features |-> num_features, version |-> 0,
     num_batches_tracked |-> 0, running_stats |-> 0]

Linear(in_features, out_features) ==
    [in_features |-> in_features, out_features |-> out_features, version |-> 0]

Conv3d(in_channels, out_channels, kernel_w) ==
    [in_channels |-> in_channels, out_channels |-> out_channels,
     kernel_w |-> kernel_w, version |-> 0]

\* A pipeline value: the tensor shape so far, the first exception raised, the
\* module as updated so far and the layers applied so far.
Ctx(self, shape) == [failed |-> FALSE, exc |-> "", where |-> "", shape |-> shape,
                     self |-> self, ops |-> <<>>]
Fail(ctx, exc, where) == [ctx EXCEPT !.failed = TRUE, !.exc = exc, !.where = where]

\* Fault: the layer tracks batch statistics whatever the mode.
bn_forward_always_training(bn, training, shape) ==
    LET counted == [bn EXCEPT !.num_batches_tracked = @ + 1]
        perChannel == shape[1] * shape[3] * shape[4] * shape[5]
    IN IF perChannel = 1
       THEN [exc |-> "ValueError", bn |-> counted]
       ELSE IF shape[2] # bn.num_features
       THEN [exc |-> "RuntimeError", bn |-> counted]
       ELSE [exc |-> "", bn |-> [counted EXCEPT !.running_stats = @ + 1]]

\* _BatchNorm.forward on a 5-axis tensor (N, C, D, H, W).  In training mode the
\* batch counter is advanced first, then a batch with one value per channel is
\* refused, then the batch statistics are folded into the running statistics.
bn_forward(bn, training, shape) ==
    LET counted == IF training
                   THEN [bn EXCEPT !.num_batches_tracked = @ + 1] ELSE bn
        perChannel == shape[1] * shape[3] * shape[4] * shape[5]
    IN IF training /\ perChannel = 1
       THEN [exc |-> "ValueError", bn |-> counted]
       ELSE IF shape[2] # bn.num_features
       THEN [exc |-> "RuntimeError", bn |-> counted]
       ELSE [exc |-> "",
             bn |-> IF training THEN [counted EXCEPT !.running_stats = @ + 1]
                    ELSE counted]

\* nn.Linear on the last axis
linear_forward(lin, ctx, name) ==
    IF ctx.failed THEN ctx
    ELSE IF ctx.shape[Len(ctx.shape)] # lin.in_features
    THEN Fail(ctx, "RuntimeError", name)
    ELSE [ctx EXCEPT !.shape[Len(ctx.shape)] = lin.out_features,
                     !.ops = Append(@, name)]

(***************************************************************************)
(* Lift (src/model.py 79-109).                                             *)
(***************************************************************************)
Lift(in_size, out_size, is_batchnorm) ==
    [is_batchnorm |-> is_batchnorm,
     bn1 |-> BatchNorm3d(3),
     linear1 |-> Linear(in_size, out_size \div 2),
     bn2 |-> BatchNorm3d(out_size \div 2),
     linear2 |-> Linear(out_size \div 2, out_size)]

\* self.bn1(inputs.transpose(1,4)).transpose(1,4) and likewise bn2; the layer
\* sees the tensor with axes 1 and 4 exchanged, the shape is restored afterwards
lift_bn(ctx, which) ==
    IF ctx.failed THEN ctx
    ELSE LET bn == IF which = "bn1" THEN ctx.self.lift.bn1 ELSE ctx.self.lift.bn2
             r == bn_forward(bn, ctx.self.training, transpose14(ctx.shape))
             self2 == IF which = "bn1" THEN [ctx.self EXCEPT !.lift.bn1 = r.bn]
                      ELSE [ctx.self EXCEPT !.lift.bn2 = r.bn]
             c2 == [ctx EXCEPT !.self = self2]
         IN IF r.exc # "" THEN Fail(c2, r.exc, "lift." \o which)
            ELSE [c2 EXCEPT !.ops = Append(@, "lift." \o which)]

\* Lift.forward; F.relu keeps the shape
Lift_forward(ctx) ==
    IF ctx.failed THEN ctx
    ELSE IF ctx.self.lift.is_batchnorm = TRUE
    THEN LET a == lift_bn(ctx, "bn1")
             b == linear_forward(ctx.self.lift.linear1, a, "lift.linear1")
             c == lift_bn(b, "bn2")
         IN linear_forward(ctx.self.lift.linear2, c, "lift.linear2")
    ELSE LET b == linear_forward(ctx.self.lift.linear1, ctx, "lift.linear1")
         IN linear_forward(ctx.self.lift.linear2, b, "lift.linear2")

(***************************************************************************)
(* ShellConv (src/model.py 112-166).                                       *)
(***************************************************************************)
point_feature == 64

\* Fault: the normalization flag is handed on to Lift.
ShellConv_flag_to_lift(out_features, prev_features, neighbor, division, is_batchnorm) ==
    LET in_channel == point_feature + prev_features
        out_channel == out_features
    IN [constructed |-> TRUE,
        training |-> TRUE,
        K |-> neighbor,
        S |-> neighbor \div division,
        point_feature |-> point_feature,
        neighbor |-> neighbor,
        lift |-> Lift(3, point_feature, is_batchnorm),
        conv_has_bn |-> (is_batchnorm = TRUE),
        conv_bn |-> BatchNorm3d(in_channel),
        conv |-> Conv3d(in_channel, out_channel, division),
        args |-> [out_features |-> out_features, prev_features |-> prev_features,
                  neighbor |-> neighbor, division |-> division,
                  is_batchnorm |-> is_batchnorm]]

\* ShellConv.__init__; a new module is in training mode
ShellConv(out_features, prev_features, neighbor, division, is_batchnorm) ==
    LET in_channel == point_feature + prev_features
        out_channel == out_features
    IN [constructed |-> TRUE,
        training |-> TRUE,
        K |-> neighbor,
        S |-> neighbor \div division,
        point_feature |-> point_feature,
        neighbor |-> neighbor,
        lift |-> Lift(3, point_feature, TRUE),
        conv_has_bn |-> (is_batchnorm = TRUE),
        conv_bn |-> BatchNorm3d(in_channel),
        conv |-> Conv3d(in_channel, out_channel, division),
        args |-> [out_features |-> out_features, prev_features |-> prev_features,
                  neighbor |-> neighbor, division |-> division,
                  is_batchnorm |-> is_batchnorm]]

\* Fault: the windows advance by one neighbor instead of S.
maxpool_stride1(self, x) ==
    IF self.S = 0 THEN Raise("RuntimeError", "maxpool")
    ELSE LET pooled(row) ==
                 [s \in 1..(Len(row) - self.S + 1) |->
                     [c \in 1..Len(row[1]) |->
                         CHOOSE v \in {row[(s - 1) + j][c] : j \in 1..self.S} :
                             \A j \in 1..self.S : row[(s - 1) + j][c] <= v]]
         IN Return1(Some([b \in 1..Len(x) |-> [l \in 1..Len(x[b]) |->
                [m \in 1..Len(x[b][l]) |-> pooled(x[b][l][m])]]]))

\* self.maxpool = nn.MaxPool3d((1, S, 1), stride=(1, S, 1)) on values: a tensor
\* B x L x M x K x C is pooled along its K axis.
maxpool(self, x) ==
    IF self.S = 0 THEN Raise("RuntimeError", "maxpool")
    ELSE LET pooled(row) ==
                 [s \in 1..PoolOutLen(Len(row), self.S) |->
                     [c \in 1..Len(row[1]) |->
                         CHOOSE v \in {row[(s - 1) * self.S + j][c] : j \in 1..self.S} :
                             \A j \in 1..self.S : row[(s - 1) * self.S + j][c] <= v]]
         IN Return1(Some([b \in 1..Len(x) |-> [l \in 1..Len(x[b]) |->
                [m \in 1..Len(x[b][l]) |-> pooled(x[b][l][m])]]]))

\* the same layer on a shape
maxpool_shape(ctx) ==
    IF ctx.failed THEN ctx
    ELSE IF ctx.self.S = 0 THEN Fail(ctx, "RuntimeError", "maxpool")
    ELSE [ctx EXCEPT !.shape[4] = PoolOutLen(@, ctx.self.S),
                     !.ops = Append(@, "maxpool")]

\* self.conv: nn.Sequential(BatchNorm3d, Conv3d) or Conv3d alone, on (B, C, L, M, W)
conv_forward(ctx) ==
    IF ctx.failed THEN ctx
    ELSE LET r == bn_forward(ctx.self.conv_bn, ctx.self.training, ctx.shape)
             a == IF ~ctx.self.conv_has_bn THEN ctx
                  ELSE LET c2 == [ctx EXCEPT !.self.conv_bn = r.bn]
                       IN IF r.exc # "" THEN Fail(c2, r.exc, "conv.bn")
                          ELSE [c2 EXCEPT !.ops = Append(@, "conv.bn")]
             cv == ctx.self.conv
         IN IF a.failed THEN a
            ELSE IF a.shape[2] # cv.in_channels \/ a.shape[5] < cv.kernel_w
            THEN Fail(a, "RuntimeError", "conv")
            ELSE [a EXCEPT !.shape = <<@[1], cv.out_channels, @[3], @[4],
                                       @[5] - cv.kernel_w + 1>>,
                           !.ops = Append(@, "conv")]

\* nn_center - nn_pts
subtract(ctx, center) ==
    IF ctx.failed THEN ctx
    ELSE IF ~Broadcastable(center, ctx.shape) THEN Fail(ctx, "RuntimeError", "subtract")
    ELSE [ctx EXCEPT !.shape = Broadcast(center, @)]

\* gather_feature and torch.cat(..., dim=-1), or the lifted feature alone
concat(ctx, ft, idxs) ==
    IF ctx.failed \/ ft.isNone THEN ctx
    ELSE LET g == gather_feature(ft.t, idxs)
         IN IF g.tag = "error" THEN Fail(ctx, g.exc, g.where)
            ELSE IF g.value.isNone THEN Fail(ctx, "TypeError", "cat")
            ELSE LET gs == Shape(g.value.t, 5)
                 IN IF SubSeq(gs, 1, 4) # SubSeq(ctx.shape, 1, 4)
                    THEN Fail(ctx, "RuntimeError", "cat")
                    ELSE [ctx EXCEPT !.shape[5] = @ + gs[5],
                                     !.ops = Append(@, "gather_feature")]

\* ShellConv.forward after the search returned r
forward_from(self, r, qrs, ft) ==
    IF r.tag = "error" THEN Fail(Ctx(self, <<>>), r.exc, r.where)
    ELSE IF r.value.isNone THEN Fail(Ctx(self, <<>>), "TypeError", "subtract")
    ELSE LET nn_pts == Ctx(self, Shape(r.value.t, 5))
             nn_center == unsqueeze3(Shape(qrs, 4))
             nn_points_local == subtract(nn_pts, nn_center)
             nn_feat_local == Lift_forward(nn_points_local)
             feat_cat_ == concat(nn_feat_local, ft, r.indices.t)
             feat_max == maxpool_shape(feat_cat_)
             permuted == IF feat_max.failed THEN feat_max
                         ELSE [feat_max EXCEPT !.shape = permute(@, <<0, 4, 1, 2, 3>>)]
             output == conv_forward(permuted)
         IN IF output.failed THEN output
            ELSE [output EXCEPT !.shape = squeeze3(permute(@, <<0, 2, 3, 4, 1>>))]

\* ShellConv.forward(points, queries, feat_prev): the set of possible outcomes
forward(self, pts, qrs, ft) ==
    {forward_from(self, r, qrs, ft) : r \in knn(pts, qrs, self.K)}

\* what the caller of forward sees
Outcome(ctx) ==
    IF ctx.failed THEN Raise(ctx.exc, ctx.where)
    ELSE [tag |-> "ok", shape |-> ctx.shape]

(***************************************************************************)
(* The driver: construction, mode switches, forward calls and the          *)
(* training loop (src/model.py 193-214).                                   *)
(***************************************************************************)
InitModule ==
    /\ pc = "start"
    /\ points = <<>>
    /\ queries = <<>>
    /\ feat = None
    /\ indices = <<>>
    /\ feat_cat = <<>>
    /\ K = 0
    /\ result = NoResult
    /\ ops = <<>>
    /\ calls = 0
    /\ model = NoModel

\* model = ShellConv(out_features, prev_features, neighbor, division, is_batchnorm)
Construct(configs) ==
    /\ pc = "start"
    /\ \E cfg \in configs :
        model' = ShellConv(cfg.out_features, cfg.prev_features, cfg.neighbor,
                           cfg.division, cfg.is_batchnorm)
    /\ pc' = "constructed"
    /\ UNCHANGED <<points, queries, feat, K, indices, feat_cat, result, ops, calls>>

\* model.eval() / model.train(), between calls
SetTraining(mode) ==
    /\ pc \in {"constructed", "stepped"}
    /\ model.training # mode
    /\ model' = [model EXCEPT !.training = mode]
    /\ UNCHANGED <<pc, points, queries, feat, K, indices, feat_cat, result, ops, calls>>

Eval == SetTraining(FALSE)
Train == SetTraining(TRUE)

\* res = model(points, queries, feat); an exception ends the run
Forward(inputs, pcs) ==
    /\ pc \in pcs
    /\ \E inp \in inputs :
        \E ctx \in forward(model, inp.points, inp.queries, inp.feat) :
            /\ points' = inp.points
            /\ queries' = inp.queries
            /\ feat' = inp.feat
            /\ result' = Outcome(ctx)
            /\ ops' = ctx.ops
            /\ model' = ctx.self
            /\ pc' = IF ctx.failed THEN "raised" ELSE "forward"
    /\ calls' = calls + 1
    /\ UNCHANGED <<K, indices, feat_cat>>

\* loss.backward(): fills the gradients, which are not part of this model
Backward ==
    /\ pc = "forward"
    /\ pc' = "backward"
    /\ UNCHANGED <<points, queries, feat, K, indices, feat_cat, result, ops, calls, model>>

\* optimizer.step(): every parameter of the module is updated
OptimizerStep ==
    /\ pc = "backward"
    /\ model' = [model EXCEPT !.lift.bn1.version = @ + 1,
                              !.lift.linear1.version = @ + 1,
                              !.lift.bn2.version = @ + 1,
                              !.lift.linear2.version = @ + 1,
                              !.conv_bn.version = IF model.conv_has_bn THEN @ + 1 ELSE @,
                              !.conv.version = @ + 1]
    /\ pc' = "stepped"
    /\ UNCHANGED <<points, queries, feat, K, indices, feat_cat, result, ops, calls>>

(***************************************************************************)
(* Forward calls on agreeing and disagreeing inputs.                       *)
(***************************************************************************)
OutFeatures == {1, 2}
PrevFeatures == {0, 1}
FeatDims == {1}

FwdConfigs ==
    {cfg \in [out_features : OutFeatures, prev_features : PrevFeatures,
              neighbor : 1..(MaxN + 1), division : 1..(MaxN + 2),
              is_batchnorm : BOOLEAN] : cfg.division <= cfg.neighbor + 1}

\* points on a line, nearest to the origin first (or last, when rev)
PatternPoints(B, L, n, rev) ==
    [b \in 1..B |-> [l \in 1..L |-> [i \in 1..n |->
        <<IF rev THEN n - i ELSE i - 1, 0, 0>>]]]
ZeroQueries(B, L, m) == [b \in 1..B |-> [l \in 1..L |-> [i \in 1..m |-> <<0, 0, 0>>]]]
ZeroFeat(B, L, n, f) ==
    [b \in 1..B |-> [l \in 1..L |-> [i \in 1..n |-> [j \in 1..f |-> 0]]]]

\* the sizes of an axis that a second tensor may have: one less, equal, one more
Near(x) == {y \in {x - 1, x, x + 1} : y >= 0}
\* (B, L, N) triples deviating from (B, L, n) in at most one axis
NearShapes(B, L, n) ==
    {<<b, L, n>> : b \in Near(B)} \cup {<<B, l, n>> : l \in Near(L)}
        \cup {<<B, L, i>> : i \in Near(n) \ {0}}

FwdShapes ==
    {s \in (0..MaxB) \X (0..MaxB) \X (1..MaxN) : s[1] * s[2] <= MaxB}

FwdInputs ==
    UNION {
        {[points |-> PatternPoints(s[1], s[2], s[3], rev),
          queries |-> ZeroQueries(q[1], q[2], m),
          feat |-> f] :
            rev \in BOOLEAN, m \in 1..MaxM,
            q \in {q \in NearShapes(s[1], s[2], s[3]) : q[3] = s[3]},
            f \in {None} \cup
                  {Some(ZeroFeat(g[1], g[2], g[3], d)) :
                       g \in NearShapes(s[1], s[2], s[3]), d \in FeatDims}}
        : s \in FwdShapes}

ConstructF == Construct(FwdConfigs)
ForwardF == Forward(FwdInputs, {"constructed"})

NextForward == ConstructF \/ Eval \/ Train \/ ForwardF

SpecForward == InitModule /\ [][NextForward]_vars

(***************************************************************************)
(* The training loop on inputs whose axes agree.                           *)
(***************************************************************************)
TrainConfigs == {cfg \in FwdConfigs : cfg.out_features = 1 /\ cfg.neighbor <= MaxN}

TrainInputs ==
    {inp \in FwdInputs :
        /\ Len(inp.points) = 1 /\ Len(inp.queries) = 1
        /\ Len(inp.points[1]) = 1 /\ Len(inp.queries[1]) = 1
        /\ (~inp.feat.isNone =>
               /\ Len(inp.feat.t) = 1 /\ Len(inp.feat.t[1]) = 1
               /\ Len(inp.feat.t[1][1]) = Len(inp.points[1][1]))}

ConstructT == Construct(TrainConfigs)
ForwardT ==
    /\ calls < MaxCalls
    /\ Forward(TrainInputs, {"constructed", "forward", "stepped"})

NextTrain == ConstructT \/ Eval \/ Train \/ ForwardT \/ Backward \/ OptimizerStep

SpecTrain == InitModule /\ [][NextTrain]_vars

(***************************************************************************)
(* The pooling step of forward on enumerated combined features.            *)
(***************************************************************************)
CatVals == {0, 1, 2}

PoolConfigs ==
    {[out_features |-> 1, prev_features |-> 0, neighbor |-> k, division |-> d,
      is_batchnorm |-> TRUE] : k \in 1..MaxK, d \in 1..(MaxK + 1)}

\* combined features B x L x M x k x C
CatTensors(k) ==
    UNION {[1..s[1] -> [1..s[2] -> [1..s[3] -> [1..k -> [1..s[4] -> CatVals]]]]]
        : s \in {s \in (1..MaxCat) \X (1..MaxCat) \X (1..MaxCat) \X (1..MaxCat) :
                     s[1] * s[2] * s[3] * s[4] * k <= MaxCat}}

ConstructP == Construct(PoolConfigs)

\* feat_max = self.maxpool(feat_cat)
PoolStep ==
    /\ pc = "constructed"
    /\ \E x \in CatTensors(model.K) :
        /\ feat_cat' = x
        /\ result' = maxpool(model, x)
    /\ pc' = "maxpool"
    /\ UNCHANGED <<points, queries, feat, K, indices, ops, calls, model>>

NextPool == ConstructP \/ PoolStep

SpecPool == InitModule /\ [][NextPool]_vars

(***************************************************************************)
(* Properties of the pooling step and of construction.                     *)
(***************************************************************************)
\* v is the maximum of the values of channel c over neighbors lo..hi of a row
IsMaxOver(row, c, lo, hi, v) ==
    /\ \E k \in lo..hi : row[k][c] = v
    /\ \A k \in lo..hi : row[k][c] <= v

\* C3: with K divisible by division and S = K / division, pooling reduces the
\* neighbor axis from K to division, and the pooled value at shell s and channel
\* c is the maximum of the combined feature over neighbors [s*S, s*S + S) of the
\* same batch, group, query and channel.
C3_PoolIsShellMax ==
    (pc = "maxpool" /\ model.K % model.args.division = 0) =>
        LET S == model.K \div model.args.division
            out == result.value.t
        IN /\ result.tag = "ok"
           /\ Len(out) = Len(feat_cat)
           /\ \A b \in 1..Len(feat_cat) :
               /\ Len(out[b]) = Len(feat_cat[b])
               /\ \A l \in 1..Len(feat_cat[b]) :
                   /\ Len(out[b][l]) = Len(feat_cat[b][l])
                   /\ \A m \in 1..Len(feat_cat[b][l]) :
                       /\ Len(out[b][l][m]) = model.args.division
                       /\ \A s \in 1..model.args.division :
                           /\ Len(out[b][l][m][s]) = Len(feat_cat[b][l][m][1])
                           /\ \A c \in 1..Len(feat_cat[b][l][m][1]) :
                                  IsMaxOver(feat_cat[b][l][m], c,
                                            (s - 1) * S + 1, (s - 1) * S + S,
                                            out[b][l][m][s][c])

\* reached: K = 4 in two shells of two neighbors whose maxima lie at different
\* places of their shells
C3_Witness ==
    /\ pc = "maxpool"
    /\ model.K = 4
    /\ model.args.division = 2
    /\ feat_cat[1][1][1] = <<<<2>>, <<0>>, <<0>>, <<1>>>>
    /\ result.tag = "ok"
    /\ result.value.t[1][1][1] = <<<<2>>, <<1>>>>

\* C4: no ShellConv whose neighbor count is not divisible by division is ever
\* built (the constructor raises a configuration error instead).
C4_IndivisibleIsRejected ==
    model.constructed => model.args.neighbor % model.args.division = 0

(***************************************************************************)
(* Properties of ShellConv.forward.                                        *)
(***************************************************************************)
Called == pc \in {"forward", "raised"}

\* two tensors have the same batch and group counts
SameBL(a, b) == Len(a) = Len(b) /\ (Len(a) >= 1 => Len(a[1]) = Len(b[1]))

\* the batch, group and point-count axes of points, queries and feat agree
AxesAgree ==
    /\ SameBL(points, queries)
    /\ ~feat.isNone =>
           /\ SameBL(points, feat.t)
           /\ NonEmpty(points) => Len(feat.t[1][1]) = NumPoints(points)

\* the sizes of the call: points (B,L,N,3), queries (B,L,M,3)
CallB == Len(points)
CallL == Len(points[1])
CallM == Len(queries[1][1])

\* a valid configuration for the inputs: K <= N, K mod division = 0, and the
\* feature tensor has prev_features channels (or is absent with prev_features 0)
ValidCall ==
    /\ NonEmpty(points)
    /\ AxesAgree
    /\ model.K <= NumPoints(points)
    /\ model.K % model.args.division = 0
    /\ feat.isNone => model.args.prev_features = 0
    /\ ~feat.isNone => Len(feat.t[1][1][1]) = model.args.prev_features

ReturnsOutputShape ==
    /\ pc = "forward"
    /\ result.tag = "ok"
    /\ result.shape = <<CallB, CallL, CallM, model.args.out_features>>

\* C5 as stated: for every valid configuration and inputs with at least one
\* group, forward returns a tensor of shape (B, L, M, out_features).
C5_ForwardShapeAlways == (Called /\ ValidCall) => ReturnsOutputShape

\* in training mode every normalization layer receives more than one value per
\* channel: B*L*M*K in Lift, B*L*M*division before the projection
MoreThanOneValuePerChannel ==
    /\ CallB * CallL * CallM * model.K > 1
    /\ model.conv_has_bn => CallB * CallL * CallM * model.args.division > 1

\* C5, amended: for every valid configuration and inputs with B, L, M >= 1,
\* forward returns a tensor of shape (B, L, M, out_features) when the module is
\* in evaluation mode or every normalization layer receives more than one value
\* per channel; otherwise the normalization layer raises ValueError.
C5_ForwardShape ==
    (Called /\ ValidCall) =>
        IF ~model.training \/ MoreThanOneValuePerChannel
        THEN ReturnsOutputShape
        ELSE pc = "raised" /\ result.tag = "error" /\ result.exc = "ValueError"

\* reached: two batch elements, one query per group, one output feature, with
\* previous features: the output is (2, 1, 1, 1)
C5_Witness ==
    /\ pc = "forward"
    /\ ValidCall
    /\ ~feat.isNone
    /\ model.training
    /\ CallB = 2
    /\ CallM = 1
    /\ model.args.out_features = 1
    /\ result.shape = <<2, 1, 1, 1>>

\* C6: whenever the batch, group or point-count axes of the point set, the
\* query set and the feature tensor disagree, forward raises and returns no
\* output.
C6_MismatchRaises == (Called /\ ~AxesAgree) => (pc = "raised" /\ result.tag = "error")

\* C7 (forward): with K > N forward raises as well.
ForwardRaisesOnTooFewPoints ==
    (Called /\ NonEmpty(points) /\ model.K > NumPoints(points)) =>
        (pc = "raised" /\ result.tag = "error")

\* position of a layer in the sequence of layers applied, 0 when absent
Position(name) == IF \E i \in 1..Len(ops) : ops[i] = name
                  THEN CHOOSE i \in 1..Len(ops) : ops[i] = name ELSE 0

\* C10: the normalization flag of ShellConv reaches only the projection: Lift
\* is built with normalization whatever the flag, every forward call applies
\* bn1 before linear1 and bn2 before linear2, and the projection is normalized
\* exactly when the flag is set.
C10_FlagControlsOnlyProjection ==
    /\ model.constructed => model.lift.is_batchnorm = TRUE
    /\ Called =>
        /\ Position("lift.linear1") # 0 =>
               Position("lift.bn1") = Position("lift.linear1") - 1
        /\ Position("lift.linear2") # 0 =>
               Position("lift.bn2") = Position("lift.linear2") - 1
        /\ Position("conv.bn") # 0 => model.args.is_batchnorm = TRUE
        /\ Position("conv") # 0 =>
               (model.args.is_batchnorm = TRUE <=> Position("conv.bn") = Position("conv") - 1)
    /\ pc = "forward" =>
        /\ Position("lift.bn1") = 1 /\ Position("lift.linear1") = 2
        /\ Position("lift.bn2") = 3 /\ Position("lift.linear2") = 4

\* reached: a ShellConv built with is_batchnorm = False returned an output after
\* normalizing twice inside Lift and not before the projection
C10_Witness ==
    /\ pc = "forward"
    /\ model.args.is_batchnorm = FALSE
    /\ feat.isNone
    /\ ops = <<"lift.bn1", "lift.linear1", "lift.bn2", "lift.linear2", "maxpool", "conv">>
    /\ model.lift.bn1.num_batches_tracked = 1
    /\ model.conv_bn.num_batches_tracked = 0

(***************************************************************************)
(* Properties of the persistent state.                                     *)
(***************************************************************************)
\* the learned parameters: weights and biases, affine normalization parameters
Params(m) ==
    <<m.lift.bn1.version, m.lift.linear1.version, m.lift.bn2.version,
      m.lift.linear2.version, m.conv_bn.version, m.conv.version>>

\* the buffers of the normalization layers
Buffers(m) ==
    <<m.lift.bn1.num_batches_tracked, m.lift.bn1.running_stats,
      m.lift.bn2.num_batches_tracked, m.lift.bn2.running_stats,
      m.conv_bn.num_batches_tracked, m.conv_bn.running_stats>>

IsForwardCall == calls' = calls + 1

\* C9 as stated: a forward call leaves the parameters and the normalization
\* layers' running statistics as they were, in training and in evaluation mode.
C9_ForwardChangesNothing ==
    [][IsForwardCall => (Params(model') = Params(model) /\ Buffers(model') = Buffers(model))]_vars

\* C9, amended: a forward call leaves the weights, biases and affine
\* normalization parameters as they were in both modes, and the running
\* statistics as they were in evaluation mode; in training mode a forward call
\* that returns has advanced the running statistics of every normalization
\* layer it applies.  The parameters change only in the optimizer step.
C9_ForwardKeepsParameters ==
    [][/\ IsForwardCall =>
            /\ Params(model') = Params(model)
            /\ model'.training = model.training
            /\ ~model.training => Buffers(model') = Buffers(model)
            /\ (model.training /\ pc' = "forward") =>
                   Buffers(model') =
                       <<model.lift.bn1.num_batches_tracked + 1,
                         model.lift.bn1.running_stats + 1,
                         model.lift.bn2.num_batches_tracked + 1,
                         model.lift.bn2.running_stats + 1,
                         model.conv_bn.num_batches_tracked
                             + (IF model.conv_has_bn THEN 1 ELSE 0),
                         model.conv_bn.running_stats
                             + (IF model.conv_has_bn THEN 1 ELSE 0)>>
       /\ (model.constructed /\ Params(model') # Params(model)) =>
              (pc = "backward" /\ pc' = "stepped")
       /\ (model.constructed /\ Buffers(model') # Buffers(model)) =>
              (IsForwardCall /\ model.training)]_vars

\* reached: a training-mode call, an optimizer step, then an evaluation-mode
\* call that returned with the statistics of the first call still in place
C9_Witness ==
    /\ pc = "forward"
    /\ calls = 2
    /\ ~model.training
    /\ Params(model) = <<1, 1, 1, 1, 1, 1>>
    /\ Buffers(model) = <<1, 1, 1, 1, 1, 1>>

====
